---- MODULE Spec2Model ----
(***************************************************************************)
(* Cover_Image_extractor.py: the batch loop over the input files, the PDF  *)
(* branch, extract_epub_cover (high-level reader, then the zip/OPF path    *)
(* with _get_rootfile_path and _find_cover_href) and extract_txt_cover.    *)
(*                                                                         *)
(* Python strings are sequences of one-character strings, so that lower(), *)
(* startswith(), substring tests, os.path and splitlines act on characters.*)
(***************************************************************************)
EXTENDS Integers, Sequences, FiniteSets, TLC

VARIABLES files, typeHint, idx, pc, runs, outputs, stdout, crashed

vars == <<files, typeHint, idx, pc, runs, outputs, stdout, crashed>>

\* Python's None, and a missing attribute: a value no character string equals.
None == <<"None">>

(***************************** str methods *********************************)

UpperAlpha ==
  <<"A","B","C","D","E","F","G","H","I","J","K","L","M",
    "N","O","P","Q","R","S","T","U","V","W","X","Y","Z">>

LowerAlpha ==
  <<"a","b","c","d","e","f","g","h","i","j","k","l","m",
    "n","o","p","q","r","s","t","u","v","w","x","y","z">>

\* The lower-case letter of each upper-case one.
LowerTable ==
  [c \in {UpperAlpha[k] : k \in DOMAIN UpperAlpha} |->
     LowerAlpha[CHOOSE k \in DOMAIN UpperAlpha : UpperAlpha[k] = c]]

LowerChar(c) == IF c \in DOMAIN LowerTable THEN LowerTable[c] ELSE c

\* str.lower()
StrLower(s) == [k \in 1..Len(s) |-> LowerChar(s[k])]

\* sub in s
Contains(s, sub) ==
  \E k \in 0..(Len(s) - Len(sub)) : SubSeq(s, k + 1, k + Len(sub)) = sub

\* s.startswith(p), s.endswith(p)
StartsWith(s, p) == Len(p) <= Len(s) /\ SubSeq(s, 1, Len(p)) = p

EndsWith(s, p) ==
  Len(p) <= Len(s) /\ SubSeq(s, Len(s) - Len(p) + 1, Len(s)) = p

\* s.rfind(c) for a single character, 1-based; 0 when absent.
RFind(s, c) ==
  IF \E k \in 1..Len(s) : s[k] = c
  THEN CHOOSE k \in 1..Len(s) : s[k] = c /\ \A j \in (k + 1)..Len(s) : s[j] # c
  ELSE 0

\* s.replace(a, b) for single characters.
ReplaceChar(s, a, b) == [k \in 1..Len(s) |-> IF s[k] = a THEN b ELSE s[k]]

\* s.split(sep) for a single character: always at least one piece.
RECURSIVE SplitOn(_, _)
SplitOn(s, sep) ==
  IF \A k \in 1..Len(s) : s[k] # sep
  THEN <<s>>
  ELSE LET k == CHOOSE j \in 1..Len(s) :
                  s[j] = sep /\ \A h \in 1..(j - 1) : s[h] # sep
       IN <<SubSeq(s, 1, k - 1)>> \o SplitOn(SubSeq(s, k + 1, Len(s)), sep)

\* sep.join(parts)
RECURSIVE JoinWith(_, _)
JoinWith(parts, sep) ==
  IF parts = <<>> THEN <<>>
  ELSE IF Len(parts) = 1 THEN parts[1]
  ELSE parts[1] \o sep \o JoinWith(Tail(parts), sep)

\* s.rstrip(chars): drop the trailing characters that are in chars.
RECURSIVE RStrip(_, _)
RStrip(s, chars) ==
  IF s # <<>> /\ s[Len(s)] \in chars
  THEN RStrip(SubSeq(s, 1, Len(s) - 1), chars)
  ELSE s

(******************************* os.path ***********************************)

Slash == <<"/">>

\* posixpath.join(a, b)
PathJoin(a, b) ==
  IF StartsWith(b, Slash) THEN b
  ELSE IF a = <<>> \/ EndsWith(a, Slash) THEN a \o b
  ELSE a \o Slash \o b

\* The component stack of posixpath.normpath.
RECURSIVE NormComps(_, _, _)
NormComps(comps, stack, rooted) ==
  IF comps = <<>> THEN stack
  ELSE LET c == Head(comps)
           rest == Tail(comps)
       IN IF c = <<>> \/ c = <<".">>
          THEN NormComps(rest, stack, rooted)
          ELSE IF c # <<".", ".">>
                  \/ (~rooted /\ stack = <<>>)
                  \/ (stack # <<>> /\ stack[Len(stack)] = <<".", ".">>)
          THEN NormComps(rest, Append(stack, c), rooted)
          ELSE IF stack # <<>>
          THEN NormComps(rest, SubSeq(stack, 1, Len(stack) - 1), rooted)
          ELSE NormComps(rest, stack, rooted)

\* posixpath.normpath(path)
NormPath(path) ==
  IF path = <<>> THEN <<".">>
  ELSE LET slashes ==
             IF ~StartsWith(path, Slash) THEN 0
             ELSE IF StartsWith(path, <<"/", "/">>)
                     /\ ~StartsWith(path, <<"/", "/", "/">>)
             THEN 2 ELSE 1
           body == JoinWith(NormComps(SplitOn(path, "/"), <<>>, slashes > 0),
                            Slash)
           out == [k \in 1..slashes |-> "/"] \o body
       IN IF out = <<>> THEN <<".">> ELSE out

\* posixpath.dirname(p)
DirName(p) ==
  LET head == SubSeq(p, 1, RFind(p, "/"))
  IN IF head # <<>> /\ \E k \in 1..Len(head) : head[k] # "/"
     THEN RStrip(head, {"/"})
     ELSE head

\* posixpath.basename(p)
BaseName(p) == SubSeq(p, RFind(p, "/") + 1, Len(p))

\* Where os.path.splitext cuts: the last dot of the last component, unless
\* only dots precede it there; Len(p) when there is no extension.
SplitPoint(p) ==
  LET sepIndex == RFind(p, "/")
      dotIndex == RFind(p, ".")
  IN IF dotIndex > sepIndex
        /\ \E k \in (sepIndex + 1)..(dotIndex - 1) : p[k] # "."
     THEN dotIndex - 1
     ELSE Len(p)

\* os.path.splitext(p)[0] and [1]
SplitExtRoot(p) == SubSeq(p, 1, SplitPoint(p))

SplitExtExt(p) == SubSeq(p, SplitPoint(p) + 1, Len(p))

(************************** string constants *******************************)

sCover == <<"c","o","v","e","r">>

sCoverImage == <<"c","o","v","e","r","-","i","m","a","g","e">>

sImageSlash == <<"i","m","a","g","e","/">>

sImagePng == <<"i","m","a","g","e","/","p","n","g">>

sImageJpeg == <<"i","m","a","g","e","/","j","p","e","g">>

sImageXyz == <<"i","m","a","g","e","/","x","y","z">>

sTextCss == <<"t","e","x","t","/","c","s","s">>

sDotPng == <<".","p","n","g">>

sDotJpg == <<".","j","p","g">>

sDotImg == <<".","i","m","g">>

sDotPdf == <<".","p","d","f">>

sDotEpub == <<".","e","p","u","b">>

sDotTxt == <<".","t","x","t">>

sEllipsis == <<".",".",".">>

(**************************** _find_cover_href *****************************)

\* The dict insertion manifest[iid] = (href, mtype, props): a key already
\* present keeps its place and takes the new value; a new key goes last.
Cover_Put(manifest, item) ==
  IF \E k \in 1..Len(manifest) : manifest[k].id = item.id
  THEN [k \in 1..Len(manifest) |->
          IF manifest[k].id = item.id THEN item ELSE manifest[k]]
  ELSE Append(manifest, item)

\* Lines 68-75: the manifest map, as the sequence of its entries in dict
\* iteration order. An item without an id or without an href is skipped.
RECURSIVE BuildManifest(_, _)
BuildManifest(items, manifest) ==
  IF items = <<>> THEN manifest
  ELSE LET item == Head(items)
       IN BuildManifest(Tail(items),
            IF item.id # <<>> /\ item.href # <<>>
            THEN Cover_Put(manifest, item)
            ELSE manifest)

\* manifest[iid], for a key of the map.
ManifestGet(manifest, iid) ==
  manifest[CHOOSE k \in 1..Len(manifest) : manifest[k].id = iid]

InManifest(manifest, iid) == \E k \in 1..Len(manifest) : manifest[k].id = iid

\* The least element of a non-empty set of positions.
MinOf(S) == CHOOSE k \in S : \A j \in S : k <= j

\* Line 79 and 81: a meta element that names a key of the map as the cover.
MetaResolves(meta, manifest) ==
  /\ StrLower(meta.name) = sCover
  /\ meta.content # <<>>
  /\ InManifest(manifest, meta.content)

\* Line 86, 91 and 96: the tests of steps 2, 3 and 4.
IsCoverImageProp(e) == Contains(e.props, sCoverImage)

IsImageType(e) == StartsWith(e.mtype, sImageSlash)

\* IsCoverNamedImage with the lower() calls of line 91 left out.
IsCoverNamedImage_CaseSensitive(e) ==
  /\ StartsWith(e.mtype, sImageSlash)
  /\ (Contains(e.id, sCover) \/ Contains(e.href, sCover))

IsCoverNamedImage(e) ==
  /\ IsImageType(e)
  /\ (Contains(StrLower(e.id), sCover) \/ Contains(StrLower(e.href), sCover))

\* The positions, in iteration order, that each step of the chain accepts.
MetaHits(metas, manifest) ==
  {m \in 1..Len(metas) : MetaResolves(metas[m], manifest)}

PropHits(manifest) == {k \in 1..Len(manifest) : IsCoverImageProp(manifest[k])}

NamedHits(manifest) == {k \in 1..Len(manifest) : IsCoverNamedImage(manifest[k])}

ImageHits(manifest) == {k \in 1..Len(manifest) : IsImageType(manifest[k])}

\* Lines 82, 87, 92, 97: os.path.normpath(os.path.join(rootfile_dir, href))
ResolveHref(rootfile_dir, href) == NormPath(PathJoin(rootfile_dir, href))

\* SelectCover with the cover-image step tried before the meta step.
SelectCover_PropFirst(metas, manifest, rootfile_dir) ==
  IF PropHits(manifest) # {}
  THEN ResolveHref(rootfile_dir, manifest[MinOf(PropHits(manifest))].href)
  ELSE IF MetaHits(metas, manifest) # {}
  THEN ResolveHref(rootfile_dir,
         ManifestGet(manifest, metas[MinOf(MetaHits(metas, manifest))].content).href)
  ELSE IF NamedHits(manifest) # {}
  THEN ResolveHref(rootfile_dir, manifest[MinOf(NamedHits(manifest))].href)
  ELSE IF ImageHits(manifest) # {}
  THEN ResolveHref(rootfile_dir, manifest[MinOf(ImageHits(manifest))].href)
  ELSE None

\* SelectCover with the 'cover'-in-name step tried before the cover-image step.
SelectCover_NamedFirst(metas, manifest, rootfile_dir) ==
  IF MetaHits(metas, manifest) # {}
  THEN ResolveHref(rootfile_dir,
         ManifestGet(manifest, metas[MinOf(MetaHits(metas, manifest))].content).href)
  ELSE IF NamedHits(manifest) # {}
  THEN ResolveHref(rootfile_dir, manifest[MinOf(NamedHits(manifest))].href)
  ELSE IF PropHits(manifest) # {}
  THEN ResolveHref(rootfile_dir, manifest[MinOf(PropHits(manifest))].href)
  ELSE IF ImageHits(manifest) # {}
  THEN ResolveHref(rootfile_dir, manifest[MinOf(ImageHits(manifest))].href)
  ELSE None

\* SelectCover whose last step takes the last image entry, not the first.
SelectCover_LastImage(metas, manifest, rootfile_dir) ==
  IF MetaHits(metas, manifest) # {}
  THEN ResolveHref(rootfile_dir,
         ManifestGet(manifest, metas[MinOf(MetaHits(metas, manifest))].content).href)
  ELSE IF PropHits(manifest) # {}
  THEN ResolveHref(rootfile_dir, manifest[MinOf(PropHits(manifest))].href)
  ELSE IF NamedHits(manifest) # {}
  THEN ResolveHref(rootfile_dir, manifest[MinOf(NamedHits(manifest))].href)
  ELSE IF ImageHits(manifest) # {}
  THEN ResolveHref(rootfile_dir,
         manifest[CHOOSE k \in ImageHits(manifest) :
                    \A j \in ImageHits(manifest) : j <= k].href)
  ELSE None

\* SelectCover that falls back to the first entry of any type.
SelectCover_AnyFallback(metas, manifest, rootfile_dir) ==
  IF MetaHits(metas, manifest) # {}
  THEN ResolveHref(rootfile_dir,
         ManifestGet(manifest, metas[MinOf(MetaHits(metas, manifest))].content).href)
  ELSE IF PropHits(manifest) # {}
  THEN ResolveHref(rootfile_dir, manifest[MinOf(PropHits(manifest))].href)
  ELSE IF NamedHits(manifest) # {}
  THEN ResolveHref(rootfile_dir, manifest[MinOf(NamedHits(manifest))].href)
  ELSE IF manifest # <<>>
  THEN ResolveHref(rootfile_dir, manifest[1].href)
  ELSE None

\* Lines 77-99: the chain over a built manifest map; None when nothing fits.
SelectCover(metas, manifest, rootfile_dir) ==
  IF MetaHits(metas, manifest) # {}
  THEN ResolveHref(rootfile_dir,
         ManifestGet(manifest, metas[MinOf(MetaHits(metas, manifest))].content).href)
  ELSE IF PropHits(manifest) # {}
  THEN ResolveHref(rootfile_dir, manifest[MinOf(PropHits(manifest))].href)
  ELSE IF NamedHits(manifest) # {}
  THEN ResolveHref(rootfile_dir, manifest[MinOf(NamedHits(manifest))].href)
  ELSE IF ImageHits(manifest) # {}
  THEN ResolveHref(rootfile_dir, manifest[MinOf(ImageHits(manifest))].href)
  ELSE None

\* _find_cover_href(opf_data, rootfile_dir), for a package document that
\* parses: opf.items and opf.metas are what the two findall calls return.
FindCoverHref(opf, rootfile_dir) ==
  SelectCover(opf.metas, BuildManifest(opf.items, <<>>), rootfile_dir)

(******************************* mimetypes *********************************)

\* mimetypes.guess_type(path)[0]: decided by the extension alone.
GuessType(path) ==
  LET ext == StrLower(SplitExtExt(path))
  IN IF ext = sDotPng THEN sImagePng
     ELSE IF ext = sDotJpg THEN sImageJpeg
     ELSE None

\* mimetypes.guess_extension(type) calls type.lower(): None has no lower().
GuessExtensionRaises(type) == type = None

\* mimetypes.guess_extension(type) for a string; None for an unknown type.
GuessExtension(type) ==
  IF StrLower(type) = sImagePng THEN sDotPng
  ELSE IF StrLower(type) = sImageJpeg THEN sDotJpg
  ELSE None

(**************************** run bookkeeping ******************************)

\* What is recorded of one input file's handling.
BlankRun(k, routine) ==
  [file |-> k, routine |-> routine, hlWrote |-> FALSE, manualRan |-> FALSE,
   located |-> FALSE, cover_href |-> None, gotBytes |-> FALSE,
   decoded |-> FALSE, max_lines |-> 0, max_chars |-> 0, nread |-> 0,
   joined |-> <<>>, text |-> <<>>, failed |-> FALSE]

\* One written file: its path, what was written, and where the bytes came
\* from (an archive member or item name; <<>> for a rendered page).
Output(k, path, kind, src, w, h, drawn) ==
  [file |-> k, path |-> path, kind |-> kind, src |-> src,
   width |-> w, height |-> h, drawn |-> drawn]

Msg(k, tag) == [file |-> k, msg |-> tag]

\* os.path.splitext(input_file)[0] + ext
OutputPath(input_file, ext) == SplitExtRoot(input_file) \o ext

(*************************** the input-file loop ***************************)

\* Line 283: ext = os.path.splitext(input_file)[1].lower()
FileExt(input_file) == StrLower(SplitExtExt(input_file))

\* DispatchOf that lets the --type hint of lines 21-25 choose the branch.
DispatchOf_Hint(input_file) ==
  IF typeHint # "none" THEN typeHint
  ELSE IF FileExt(input_file) = sDotPdf THEN "pdf"
  ELSE IF FileExt(input_file) = sDotEpub THEN "epub"
  ELSE IF FileExt(input_file) = sDotTxt THEN "txt"
  ELSE "unsupported"

\* Lines 284-320: the branch taken for one input file.
DispatchOf(input_file) ==
  IF FileExt(input_file) = sDotPdf THEN "pdf"
  ELSE IF FileExt(input_file) = sDotEpub THEN "epub"
  ELSE IF FileExt(input_file) = sDotTxt THEN "txt"
  ELSE "unsupported"

\* The loop is at the top of an iteration with a file left to handle.
AtFile == pc = "loop" /\ ~crashed /\ idx <= Len(files)

(***************** extract_epub_cover: the EbookLib path *******************)

HlIsImage(it) == StartsWith(it.media_type, sImageSlash)

\* Line 115: image_items
HlImageItems(hl) == SelectSeq(hl.items, HlIsImage)

\* Lines 119-121: 'cover' in the item's id or file name, in any letter case.
HlIsCoverNamed(it) ==
  Contains(StrLower(it.id), sCover) \/ Contains(StrLower(it.file_name), sCover)

\* Lines 117-127: the first cover-named image item, else the first image item.
HlCoverItem(image_items) ==
  IF \E k \in 1..Len(image_items) : HlIsCoverNamed(image_items[k])
  THEN image_items[MinOf({k \in 1..Len(image_items) :
                            HlIsCoverNamed(image_items[k])})]
  ELSE image_items[1]

\* Line 151: file_name, else id.
HlItemName(it) == IF it.file_name # <<>> THEN it.file_name ELSE it.id

\* Lines 152-154: the extension for the raw bytes of an item.
HlRawExt(it) ==
  IF SplitExtExt(HlItemName(it)) # <<>> THEN SplitExtExt(HlItemName(it))
  ELSE IF GuessExtension(it.media_type) # None
  THEN GuessExtension(it.media_type)
  ELSE sDotImg

\* HlNextPc without the return statements of lines 148 and 159.
HlNextPc_Fallthrough(wrote) == "manual"

\* Lines 148 and 159 return from extract_epub_cover once the cover is
\* written; otherwise control reaches the zip/OPF path at line 165.
HlNextPc(wrote) == IF wrote THEN "loop" ELSE "manual"

\* Lines 103-163. The reader fails to open, finds no image item, finds one
\* whose bytes cannot be read, or writes the cover (PNG, or the raw bytes).
EpubHighLevel ==
  /\ AtFile
  /\ DispatchOf(files[idx].name) = "epub"
  /\ LET f == files[idx]
         image_items == HlImageItems(f.hl)
         item == HlCoverItem(image_items)
         run == BlankRun(idx, "epub")
         start == Append(stdout, Msg(idx, "epub_start"))
         raised == ~f.hl.opens \/ (image_items # <<>> /\ item.content = "none")
         wrote == ~raised /\ image_items # <<>>
     IN /\ IF raised
           THEN /\ stdout' = Append(start, Msg(idx, "hl_failed"))
                /\ runs' = Append(runs, run)
                /\ UNCHANGED outputs
           ELSE IF image_items = <<>>
           THEN /\ stdout' = start
                /\ runs' = Append(runs, run)
                /\ UNCHANGED outputs
           ELSE IF item.content = "image"
           THEN /\ outputs' = Append(outputs,
                     Output(idx, OutputPath(f.name, sDotPng), "png",
                            HlItemName(item), 0, 0, <<>>))
                /\ stdout' = Append(start, Msg(idx, "done"))
                /\ runs' = Append(runs, [run EXCEPT !.hlWrote = TRUE,
                                          !.gotBytes = TRUE, !.decoded = TRUE])
           ELSE /\ outputs' = Append(outputs,
                     Output(idx, OutputPath(f.name, HlRawExt(item)), "raw",
                            HlItemName(item), 0, 0, <<>>))
                /\ stdout' = Append(start, Msg(idx, "done_raw"))
                /\ runs' = Append(runs, [run EXCEPT !.hlWrote = TRUE,
                                          !.gotBytes = TRUE])
        /\ pc' = HlNextPc(wrote)
        /\ idx' = IF HlNextPc(wrote) = "loop" THEN idx + 1 ELSE idx
  /\ UNCHANGED <<files, typeHint, crashed>>

(****************** extract_epub_cover: the zip/OPF path *******************)

\* _get_rootfile_path and line 170 raise: no zip, no or bad container.xml,
\* no rootfile element, no or bad package document.
ZipParseFails(z) ==
  \/ ~z.valid
  \/ z.container # "ok"
  \/ z.opfstate # "ok"

HasMember(z, name) == \E k \in 1..Len(z.members) : z.members[k].name = name

\* Line 185: the archive names that end with the href's base name.
BaseNameHits(z, cover_href) ==
  {k \in 1..Len(z.members) :
     EndsWith(StrLower(z.members[k].name), StrLower(BaseName(cover_href)))}

\* Lines 179-188: the member read for cover_href; by its exact name, else
\* the first name ending with its base name.
MemberFor(z, cover_href) ==
  IF HasMember(z, cover_href)
  THEN z.members[MinOf({k \in 1..Len(z.members) :
                          z.members[k].name = cover_href})]
  ELSE z.members[MinOf(BaseNameHits(z, cover_href))]

CanRead(z, cover_href) ==
  HasMember(z, cover_href) \/ BaseNameHits(z, cover_href) # {}

\* Lines 203-206: the extension for the raw bytes. Without an extension in
\* the name, guess_type gives None and guess_extension(None) raises.
ManualRawExtRaises(name) ==
  SplitExtExt(name) = <<>> /\ GuessExtensionRaises(GuessType(name))

ManualRawExt(name) ==
  IF SplitExtExt(name) # <<>> THEN SplitExtExt(name)
  ELSE IF GuessExtension(GuessType(name)) # None
  THEN GuessExtension(GuessType(name))
  ELSE sDotImg

\* Lines 165-212.
EpubManual ==
  /\ pc = "manual"
  /\ LET f == files[idx]
         z == f.zip
         run == [runs[Len(runs)] EXCEPT !.manualRan = TRUE]
         found == FindCoverHref(z.opf, DirName(z.rootfile))
         cover_href == ReplaceChar(found, "\\", "/")
         member == MemberFor(z, cover_href)
         set(r) == [runs EXCEPT ![Len(runs)] = r]
     IN IF ZipParseFails(z)
        THEN /\ stdout' = Append(stdout, Msg(idx, "epub_error"))
             /\ runs' = set([run EXCEPT !.failed = TRUE])
             /\ UNCHANGED outputs
        ELSE IF found = None
        THEN /\ stdout' = Append(stdout, Msg(idx, "not_found"))
             /\ runs' = set([run EXCEPT !.located = TRUE])
             /\ UNCHANGED outputs
        ELSE IF ~CanRead(z, cover_href)
        THEN /\ stdout' = Append(stdout, Msg(idx, "cannot_read"))
             /\ runs' = set([run EXCEPT !.located = TRUE,
                                        !.cover_href = found])
             /\ UNCHANGED outputs
        ELSE IF member.decodable
        THEN /\ outputs' = Append(outputs,
                  Output(idx, OutputPath(f.name, sDotPng), "png",
                         member.name, 0, 0, <<>>))
             /\ stdout' = Append(stdout, Msg(idx, "done"))
             /\ runs' = set([run EXCEPT !.located = TRUE,
                                        !.cover_href = found,
                                        !.gotBytes = TRUE, !.decoded = TRUE])
        ELSE IF ManualRawExtRaises(member.name)
        THEN /\ stdout' = Append(stdout, Msg(idx, "epub_error"))
             /\ runs' = set([run EXCEPT !.located = TRUE,
                                        !.cover_href = found,
                                        !.gotBytes = TRUE, !.failed = TRUE])
             /\ UNCHANGED outputs
        ELSE /\ outputs' = Append(outputs,
                  Output(idx, OutputPath(f.name, ManualRawExt(member.name)),
                         "raw", member.name, 0, 0, <<>>))
             /\ stdout' = Append(stdout, Msg(idx, "done_raw"))
             /\ runs' = set([run EXCEPT !.located = TRUE,
                                        !.cover_href = found,
                                        !.gotBytes = TRUE])
  /\ idx' = idx + 1
  /\ pc' = "loop"
  /\ UNCHANGED <<files, typeHint, crashed>>

(*************************** extract_txt_cover *****************************)

\* Line 216: the defaults of max_lines and max_chars.
DefaultMaxLines == 20

DefaultMaxChars == 2000

\* Lines 243, 244, 257, 258 and 263.
CanvasWidth == 1200

Margin == 40

FallbackCharW == 7

MinCharsPerLine == 40

LineGap == 6

\* What str.rstrip() and textwrap treat as whitespace.
WhiteSpace == {" ", "\n", "\t", "\r"}

Min(a, b) == IF a <= b THEN a ELSE b

Max(a, b) == IF a >= b THEN a ELSE b

\* The lines f.readline() returns one after another, terminators included.
RECURSIVE RawLines(_)
RawLines(data) ==
  IF data = <<>> THEN <<>>
  ELSE IF \A k \in 1..Len(data) : data[k] # "\n" THEN <<data>>
  ELSE LET k == CHOOSE j \in 1..Len(data) :
                  data[j] = "\n" /\ \A h \in 1..(j - 1) : data[h] # "\n"
       IN <<SubSeq(data, 1, k)>> \o RawLines(SubSeq(data, k + 1, Len(data)))

\* Lines 225-230: at most max_lines lines, each without its newline.
ReadLines(data, max_lines) ==
  [k \in 1..Min(max_lines, Len(RawLines(data))) |->
     RStrip(RawLines(data)[k], {"\n"})]

\* Truncate that cuts and forgets the ellipsis.
Truncate_NoEllipsis(text, max_chars) ==
  IF Len(text) > max_chars
  THEN RStrip(SubSeq(text, 1, max_chars), WhiteSpace)
  ELSE text

\* Lines 237-238: text[:max_chars].rstrip() + '...' when text is too long.
Truncate(text, max_chars) ==
  IF Len(text) > max_chars
  THEN RStrip(SubSeq(text, 1, max_chars), WhiteSpace) \o sEllipsis
  ELSE text

\* Lines 257-258.
CharsPerLine(font) ==
  Max(MinCharsPerLine,
      (CanvasWidth - 2 * Margin) \div (IF font.w = 0 THEN FallbackCharW ELSE font.w))

\* textwrap.fill(text, width) for a text of at most width characters: each
\* whitespace character becomes a space and the trailing spaces are dropped;
\* nothing is broken, so the result is one line, or empty.
FillOneLine(text) ==
  RStrip([k \in 1..Len(text) |->
            IF text[k] \in WhiteSpace THEN " " ELSE text[k]], {" "})

\* Line 261: wrapped.splitlines() of a text without newlines.
SplitLinesOneLine(wrapped) == IF wrapped = <<>> THEN <<>> ELSE <<wrapped>>

\* Line 264.
CanvasHeight(font, nlines) == Margin * 2 + (font.h + LineGap) * Max(1, nlines)

\* Lines 216-278, for the file at idx. The wrap is modelled for texts that
\* fit on one line of the canvas, which MinCharsPerLine makes every text of
\* fewer than 40 characters.
ExtractTxtCover(max_lines, max_chars) ==
  /\ AtFile
  /\ LET f == files[idx]
         lines == ReadLines(f.txt.data, max_lines)
         joined == JoinWith(lines, <<"\n">>)
         text == Truncate(joined, max_chars)
         drawn == SplitLinesOneLine(FillOneLine(text))
         run == [BlankRun(idx, "txt") EXCEPT !.max_lines = max_lines,
                                             !.max_chars = max_chars]
         start == Append(stdout, Msg(idx, "txt_start"))
     IN /\ Len(text) <= CharsPerLine(f.txt.font)
        /\ IF ~f.txt.readable
           THEN /\ stdout' = Append(start, Msg(idx, "txt_error"))
                /\ runs' = Append(runs, [run EXCEPT !.failed = TRUE])
                /\ UNCHANGED outputs
           ELSE IF lines = <<>>
           THEN /\ stdout' = Append(start, Msg(idx, "txt_empty"))
                /\ runs' = Append(runs, run)
                /\ UNCHANGED outputs
           ELSE /\ outputs' = Append(outputs,
                     Output(idx, OutputPath(f.name, sDotPng), "png", <<>>,
                            CanvasWidth, CanvasHeight(f.txt.font, Len(drawn)),
                            drawn))
                /\ stdout' = Append(start, Msg(idx, "txt_done"))
                /\ runs' = Append(runs, [run EXCEPT !.nread = Len(lines),
                                          !.joined = joined, !.text = text])
  /\ idx' = idx + 1
  /\ UNCHANGED <<files, typeHint, pc, crashed>>

\* Line 317-318: extract_txt_cover(input_file), with the defaults.
LoopTxt ==
  /\ AtFile
  /\ DispatchOf(files[idx].name) = "txt"
  /\ ExtractTxtCover(DefaultMaxLines, DefaultMaxChars)

(************************* the PDF and else branch *************************)

\* LoopPdf with the failure caught and reported, as the other branches do.
LoopPdf_Guarded ==
  /\ AtFile
  /\ DispatchOf(files[idx].name) = "pdf"
  /\ IF files[idx].pdf = "ok"
     THEN outputs' = Append(outputs,
            Output(idx, OutputPath(files[idx].name, sDotPng), "png", <<>>,
                   0, 0, <<>>))
     ELSE UNCHANGED outputs
  /\ stdout' = Append(stdout, Msg(idx, "pdf_start"))
  /\ runs' = Append(runs, [BlankRun(idx, "pdf") EXCEPT
                             !.failed = files[idx].pdf # "ok"])
  /\ idx' = idx + 1
  /\ UNCHANGED <<files, typeHint, pc, crashed>>

\* Lines 284-314. PdfReader, pages[0] or convert_from_bytes raise, and
\* nothing catches it: the interpreter leaves the loop.
LoopPdf ==
  /\ AtFile
  /\ DispatchOf(files[idx].name) = "pdf"
  /\ LET f == files[idx]
         run == BlankRun(idx, "pdf")
         start == Append(stdout, Msg(idx, "pdf_start"))
     IN IF f.pdf = "ok"
        THEN /\ outputs' = Append(outputs,
                  Output(idx, OutputPath(f.name, sDotPng), "png", <<>>,
                         0, 0, <<>>))
             /\ stdout' = start \o <<Msg(idx, "pdf_path"), Msg(idx, "pdf_done")>>
             /\ runs' = Append(runs, run)
             /\ idx' = idx + 1
             /\ UNCHANGED crashed
        ELSE /\ stdout' = start
             /\ runs' = Append(runs, [run EXCEPT !.failed = TRUE])
             /\ crashed' = TRUE
             /\ UNCHANGED <<outputs, idx>>
  /\ UNCHANGED <<files, typeHint, pc>>

\* Lines 319-320.
LoopUnsupported ==
  /\ AtFile
  /\ DispatchOf(files[idx].name) = "unsupported"
  /\ stdout' = Append(stdout, Msg(idx, "unsupported"))
  /\ runs' = Append(runs, BlankRun(idx, "unsupported"))
  /\ idx' = idx + 1
  /\ UNCHANGED <<files, typeHint, pc, outputs, crashed>>

(****************************** the inputs *********************************)

\* Bounds of the input spaces.
MaxFiles == 2

MaxItems == 2

MaxMetas == 2

MaxHlItems == 2

MaxFileLen == 5

MaxLinesArg == 3

MaxCharsArg == 4

\* A reader that cannot open the file, no archive, no text.
NoHl == [opens |-> FALSE, items |-> <<>>]

NoOpf == [items |-> <<>>, metas |-> <<>>]

NoZip ==
  [valid |-> FALSE, container |-> "ok", rootfile |-> <<>>, opfstate |-> "ok",
   opf |-> NoOpf, members |-> <<>>]

DefaultFont == [w |-> 6, h |-> 11]

NoTxt == [readable |-> FALSE, data |-> <<>>, font |-> DefaultFont]

File(name, pdf, hl, zip, txt) ==
  [name |-> name, pdf |-> pdf, hl |-> hl, zip |-> zip, txt |-> txt]

Item(id, href, mtype, props) ==
  [id |-> id, href |-> href, mtype |-> mtype, props |-> props]

Meta(name, content) == [name |-> name, content |-> content]

Member(name, decodable) == [name |-> name, decodable |-> decodable]

\* A well-formed archive around a package document.
Zip(rootfile, opf, members) ==
  [valid |-> TRUE, container |-> "ok", rootfile |-> rootfile,
   opfstate |-> "ok", opf |-> opf, members |-> members]

nEpub == <<"b","o","o","k",".","e","p","u","b">>

nTxt == <<"n","o","t","e","s",".","t","x","t">>

idCover == <<"C","o","v","e","r">>

idP1 == <<"p","1">>

idP2 == <<"p","2">>

hrefCover == <<".",".","/","i","m","g","/","C","O","V","E","R",".","j","p","g">>

hrefP == <<"p",".","p","n","g">>

hrefQ == <<"q",".","p","n","g">>

hrefNoExt == <<"f","r","o","n","t">>

propNone == <<>>

propCover == <<"n","a","v"," ">> \o sCoverImage

rootTop == <<"c",".","o","p","f">>

rootDeep == <<"O","E","B","P","S","/","c",".","o","p","f">>

\* Manifest items of the package document: plain images, an image named
\* cover by its id and one by its href, a non-image named cover, an image
\* and a non-image marked with the cover-image property, an item without an
\* id and one without an href. Ids and hrefs repeat between them, so that a
\* document can carry the same id twice.
ItemUniverse ==
  {Item(idP1, hrefP, sImagePng, propNone),
   Item(idP2, hrefQ, sImagePng, propNone),
   Item(idCover, hrefP, sImagePng, propNone),
   Item(idP2, hrefCover, sImageJpeg, propNone),
   Item(idCover, hrefCover, sTextCss, propNone),
   Item(idP1, hrefP, sImagePng, propCover),
   Item(idP2, hrefQ, sTextCss, propCover),
   Item(<<>>, hrefCover, sImagePng, propCover),
   Item(idCover, <<>>, sImagePng, propCover)}

\* meta elements: two named cover with different contents, one named
\* cover in another letter case, and one with another name.
MetaUniverse ==
  {Meta(sCover, idP1), Meta(sCover, idP2), Meta(idCover, idCover),
   Meta(idP1, idP2)}

\* The archive around the package document OEBPS/c.opf: a member for every
\* href the items can name; the bytes at q.png do not decode.
LocatorMembers ==
  <<Member(ResolveHref(DirName(rootDeep), hrefP), TRUE),
    Member(ResolveHref(DirName(rootDeep), hrefQ), FALSE),
    Member(ResolveHref(DirName(rootDeep), hrefCover), TRUE)>>

\* One EPUB whose reader fails, so that the zip/OPF path locates the cover.
LocatorFile(items, metas) ==
  File(nEpub, "ok", NoHl,
       Zip(rootDeep, [items |-> items, metas |-> metas], LocatorMembers),
       NoTxt)

Start(fs, hint) ==
  /\ files = fs
  /\ typeHint = hint
  /\ idx = 1
  /\ pc = "loop"
  /\ runs = <<>>
  /\ outputs = <<>>
  /\ stdout = <<>>
  /\ crashed = FALSE

InitLocator ==
  \E n \in 0..MaxItems, m \in 0..MaxMetas :
    \E items \in [1..n -> ItemUniverse], metas \in [1..m -> MetaUniverse] :
      Start(<<LocatorFile(items, metas)>>, "none")

\* extract_epub_cover on one file.
NextEpub == EpubHighLevel \/ EpubManual

SpecLocator == InitLocator /\ [][NextEpub]_vars

\* Items the high-level reader lists: named by id alone or by a file name
\* with an extension; of a known image type, an unknown image type or no
\* image type; with bytes that decode, bytes that do not, or no bytes.
HlItem(id, file_name, media_type, content) ==
  [id |-> id, file_name |-> file_name, media_type |-> media_type,
   content |-> content]

HlItemUniverse ==
  {HlItem(nm[1], nm[2], media_type, content) :
     nm \in {<<idCover, <<>>>>, <<idP1, hrefCover>>},
     media_type \in {sImagePng, sImageXyz, sTextCss},
     content \in {"image", "junk", "none"}}

memFront == <<"O","E","B","P","S","/","f","r","o","n","t">>

memMoved == <<"i","m","g","/","F","r","o","n","t">>

memP == <<"O","E","B","P","S","/","p",".","p","n","g">>

FrontOpf == [items |-> <<Item(idP1, hrefNoExt, sImagePng, propNone)>>,
             metas |-> <<>>]

PlainOpf == [items |-> <<Item(idP1, hrefP, sImagePng, propNone)>>,
             metas |-> <<>>]

\* Archives: not a zip; no container.xml, a malformed one, one without a
\* rootfile; no package document, a malformed one; a cover without a file
\* extension that decodes, does not decode, is absent, or sits elsewhere in
\* the archive; a cover with an extension that decodes or not; no items.
EpubZips ==
  {NoZip,
   [NoZip EXCEPT !.valid = TRUE, !.container = "missing"],
   [NoZip EXCEPT !.valid = TRUE, !.container = "malformed"],
   [NoZip EXCEPT !.valid = TRUE, !.container = "norootfile"],
   [Zip(rootDeep, NoOpf, <<>>) EXCEPT !.opfstate = "missing"],
   [Zip(rootDeep, NoOpf, <<>>) EXCEPT !.opfstate = "malformed"],
   Zip(rootDeep, FrontOpf, <<Member(memFront, TRUE)>>),
   Zip(rootDeep, FrontOpf, <<Member(memFront, FALSE)>>),
   Zip(rootDeep, FrontOpf, <<>>),
   Zip(rootDeep, FrontOpf, <<Member(memP, TRUE), Member(memMoved, TRUE)>>),
   Zip(rootDeep, PlainOpf, <<Member(memP, TRUE)>>),
   Zip(rootDeep, PlainOpf, <<Member(memP, FALSE)>>),
   Zip(rootTop, PlainOpf, <<Member(hrefP, TRUE)>>),
   Zip(rootDeep, NoOpf, <<>>)}

InitEpub ==
  \E zip \in EpubZips :
    \/ Start(<<File(nEpub, "ok", NoHl, zip, NoTxt)>>, "none")
    \/ \E n \in 0..MaxHlItems : \E items \in [1..n -> HlItemUniverse] :
         Start(<<File(nEpub, "ok", [opens |-> TRUE, items |-> items], zip,
                      NoTxt)>>, "none")

SpecEpub == InitEpub /\ [][NextEpub]_vars

\* Text files: every character string over a three-letter alphabet.
TxtAlphabet == {"a", " ", "\n"}

Fonts == {DefaultFont, [w |-> 0, h |-> 11]}

InitTxt ==
  \E n \in 0..MaxFileLen, font \in Fonts, readable \in BOOLEAN :
    \E data \in [1..n -> TxtAlphabet] :
      Start(<<File(nTxt, "ok", NoHl, NoZip,
                   [readable |-> readable, data |-> data, font |-> font])>>,
            "none")

\* extract_txt_cover(input_file, max_lines, max_chars) on one file.
NextTxt ==
  \E max_lines \in 0..MaxLinesArg, max_chars \in 0..MaxCharsArg :
    ExtractTxtCover(max_lines, max_chars)

SpecTxt == InitTxt /\ [][NextTxt]_vars

nPdf == <<"a",".","p","d","f">>

nPdfUpper == <<"B",".","P","D","F">>

nDoc == <<"x",".","d","o","c">>

nNoExt == <<"p","d","f">>

nDotOnly == <<".","e","p","u","b">>

dataHello == <<"H","e","l","l","o"," ","w","o","r","l","d">>

\* The files of a batch: PDFs that render, cannot be read or cannot be
\* rendered; EPUBs whose reader writes the cover, whose archive yields it,
\* whose archive has no container.xml, whose manifest has no image; text
\* files with one line, empty, unreadable; names with no known extension.
BatchFiles ==
  {File(name, pdf, NoHl, NoZip, NoTxt) :
     name \in {nPdf, nPdfUpper}, pdf \in {"ok", "unreadable", "norender"}}
  \cup
  {File(nEpub, "ok", hl, zip, NoTxt) :
     hl \in {NoHl}, zip \in {Zip(rootDeep, PlainOpf, <<Member(memP, TRUE)>>),
                             [NoZip EXCEPT !.valid = TRUE,
                                           !.container = "missing"],
                             Zip(rootDeep, NoOpf, <<>>)}}
  \cup
  {File(nEpub, "ok",
        [opens |-> TRUE,
         items |-> <<HlItem(idP1, hrefCover, sImageJpeg, "image")>>],
        NoZip, NoTxt)}
  \cup
  {File(nTxt, "ok", NoHl, NoZip, txt) :
     txt \in {[readable |-> TRUE, data |-> dataHello, font |-> DefaultFont],
              [readable |-> TRUE, data |-> <<>>, font |-> DefaultFont],
              NoTxt}}
  \cup
  {File(name, "ok", NoHl, NoZip, NoTxt) : name \in {nDoc, nNoExt, nDotOnly}}

Hints == {"none", "pdf", "epub", "txt"}

Init ==
  \E n \in 0..MaxFiles, hint \in Hints : \E fs \in [1..n -> BatchFiles] :
    Start(fs, hint)

Next == LoopPdf \/ EpubHighLevel \/ EpubManual \/ LoopTxt \/ LoopUnsupported

Spec == Init /\ [][Next]_vars

(******************** claims about _find_cover_href ************************)

\* The file has been handled and the zip/OPF path called the locator.
LocDone ==
  /\ idx = 2 /\ pc = "loop" /\ Len(runs) = 1
  /\ runs[1].manualRan /\ runs[1].located

LocItems == files[1].zip.opf.items

LocMetas == files[1].zip.opf.metas

LocDir == DirName(files[1].zip.rootfile)

\* What the locator returned: a path in the archive, or None.
LocResult == runs[1].cover_href

\* The href of item k of the document, resolved against the package
\* document's directory.
LocHref(k) == ResolveHref(LocDir, LocItems[k].href)

\* Item k has both an id and an href.
Usable(k) == LocItems[k].id # <<>> /\ LocItems[k].href # <<>>

UsableItems == {k \in 1..Len(LocItems) : Usable(k)}

\* No two items that have an id and an href share their id.
UniqueIds ==
  \A j, k \in UsableItems : j # k => LocItems[j].id # LocItems[k].id

\* Meta m is named cover, in any letter case, and its content is the id of
\* an item that has an href.
Resolvable(m) ==
  /\ StrLower(LocMetas[m].name) = sCover
  /\ \E k \in UsableItems : LocItems[k].id = LocMetas[m].content

ResolvableMetas == {m \in 1..Len(LocMetas) : Resolvable(m)}

HasCoverProp(k) == Contains(LocItems[k].props, sCoverImage)

ImageTyped(k) == StartsWith(LocItems[k].mtype, sImageSlash)

CoverNamed(k) ==
  \/ Contains(StrLower(LocItems[k].id), sCover)
  \/ Contains(StrLower(LocItems[k].href), sCover)

\* C1 as stated: in a document whose manifest ids are pairwise distinct,
\* for every meta name="cover" content="X" and every manifest item with id X
\* and an href, the locator returns that item's resolved href.
C1_Original ==
  (LocDone /\ UniqueIds) =>
    \A m \in 1..Len(LocMetas), k \in UsableItems :
      (LocMetas[m].name = sCover /\ LocMetas[m].content = LocItems[k].id)
        => LocResult = LocHref(k)

\* C1: when the ids of the items with an id and an href are pairwise
\* distinct, the locator returns the resolved href of the item named by the
\* first cover meta entry, in document order, whose content is the id of an
\* item with an href, whatever other items the manifest holds.
C1_FirstResolvableMetaWins ==
  (LocDone /\ UniqueIds /\ ResolvableMetas # {}) =>
    \E k \in UsableItems :
      /\ LocItems[k].id = LocMetas[MinOf(ResolvableMetas)].content
      /\ LocResult = LocHref(k)

\* A cover meta resolved although an earlier item, with another href,
\* carries the cover-image property.
C1_Witness ==
  /\ LocDone /\ UniqueIds /\ ResolvableMetas # {}
  /\ \E j, k \in UsableItems :
       /\ j < k /\ HasCoverProp(j) /\ LocHref(j) # LocResult
       /\ LocItems[k].id = LocMetas[MinOf(ResolvableMetas)].content
       /\ LocResult = LocHref(k)

\* No meta element is named cover.
NoCoverMeta ==
  \A m \in 1..Len(LocMetas) : StrLower(LocMetas[m].name) # sCover

\* C2: with no cover meta that names an item, pairwise distinct ids, and
\* exactly one manifest item whose properties contain cover-image, the
\* locator returns that item's resolved href, also when an image named
\* cover or another image comes first.
C2_CoverImagePropertyWins ==
  (LocDone /\ ResolvableMetas = {} /\ UniqueIds) =>
    \A k \in UsableItems :
      (HasCoverProp(k) /\ \A j \in 1..Len(LocItems) : HasCoverProp(j) => j = k)
        => LocResult = LocHref(k)

\* The marked item was returned although an image named cover precedes it.
C2_Witness ==
  /\ LocDone /\ NoCoverMeta /\ UniqueIds
  /\ \E k \in UsableItems :
       /\ HasCoverProp(k)
       /\ \A j \in 1..Len(LocItems) : HasCoverProp(j) => j = k
       /\ LocResult = LocHref(k)
       /\ \E j \in UsableItems :
            j < k /\ ImageTyped(j) /\ CoverNamed(j) /\ LocHref(j) # LocHref(k)

\* Steps 1 and 2 find nothing: no resolvable cover meta, no marked item.
Unmarked ==
  /\ ResolvableMetas = {}
  /\ \A k \in 1..Len(LocItems) : ~HasCoverProp(k)

\* The image items, having an id and an href, with cover in id or href.
NamedImages == {k \in UsableItems : ImageTyped(k) /\ CoverNamed(k)}

\* C3: with neither, and pairwise distinct ids, if some image-typed item
\* with an id and an href has "cover" in its id or href in any letter case,
\* the locator returns the resolved href of the first such item in document
\* order.
C3_FirstCoverNamedImage ==
  (LocDone /\ Unmarked /\ UniqueIds /\ NamedImages # {}) =>
    LocResult = LocHref(MinOf(NamedImages))

\* Returned: an image named cover only in upper case, after a plain image
\* and a non-image named cover that were passed over.
C3_Witness ==
  /\ LocDone /\ Unmarked /\ UniqueIds /\ NamedImages # {}
  /\ ~Contains(LocItems[MinOf(NamedImages)].id, sCover)
  /\ ~Contains(LocItems[MinOf(NamedImages)].href, sCover)
  /\ \E j \in UsableItems :
       j < MinOf(NamedImages) /\ ImageTyped(j) /\ LocHref(j) # LocResult

\* The image items that have an id and an href.
UsableImages == {k \in UsableItems : ImageTyped(k)}

\* Steps 1 to 3 find nothing.
Unlabelled ==
  /\ Unmarked
  /\ \A k \in 1..Len(LocItems) : ImageTyped(k) => ~CoverNamed(k)

\* C4: when no cover meta names an item, no item carries cover-image, no
\* image item has cover in its id or href, and the ids are pairwise
\* distinct, the locator returns the resolved href of the image item that
\* comes first in the document among the items with an id and an href.
C4_FirstImageInDocumentOrder ==
  (LocDone /\ Unlabelled /\ UniqueIds /\ UsableImages # {}) =>
    LocResult = LocHref(MinOf(UsableImages))

\* Two unlabelled images with different hrefs, and the first was returned.
C4_Witness ==
  /\ LocDone /\ Unlabelled /\ UniqueIds
  /\ \E j, k \in UsableImages : j < k /\ LocHref(j) # LocHref(k)
  /\ LocResult = LocHref(MinOf(UsableImages))

\* The zip/OPF path has run to its end on the only file.
ManualDone ==
  /\ idx = 2 /\ pc = "loop" /\ Len(runs) = 1
  /\ runs[1].manualRan /\ ~ZipParseFails(files[1].zip)

NotFoundReported ==
  /\ runs[1].located /\ LocResult = None
  /\ \E n \in 1..Len(stdout) : stdout[n] = Msg(1, "not_found")
  /\ outputs = <<>>

NoImageItem == \A k \in 1..Len(LocItems) : ~ImageTyped(k)

\* C5 as stated: with zero image-typed manifest items the locator returns
\* None, the not-found message is printed and no output file is created.
C5_Original == (ManualDone /\ NoImageItem) => NotFoundReported

\* C5: with zero image-typed manifest items, no resolvable cover meta and
\* no item carrying the cover-image property, the locator returns None, the
\* zip/OPF path prints the not-found message and no output file is created.
C5_NoImageNotFound ==
  (ManualDone /\ NoImageItem /\ Unmarked) => NotFoundReported

\* A manifest of non-image items only, and not-found was reported.
C5_Witness ==
  /\ ManualDone /\ NoImageItem /\ Unmarked /\ UsableItems # {}
  /\ NotFoundReported

(********************* claims about extract_epub_cover *********************)

\* The outputs written for input file k.
OutputsOf(k) == {n \in 1..Len(outputs) : outputs[n].file = k}

\* Input file k has been handled to the end.
Finished(k) == k <= Len(runs) /\ (k < idx \/ (k = idx /\ crashed))

\* C6: once the cover bytes of an EPUB are obtained an output file is
\* written: a .png when they decode, else the raw bytes under the extension
\* of their name, or .img when the name has none and no type is known; on
\* the reader path and on the zip/OPF path alike.
C6_AlwaysAnOutput ==
  \A k \in 1..Len(runs) :
    (runs[k].routine = "epub" /\ Finished(k) /\ runs[k].gotBytes) =>
      \E n \in OutputsOf(k) :
        /\ runs[k].decoded =>
             (outputs[n].kind = "png"
                /\ outputs[n].path = OutputPath(files[k].name, sDotPng))
        /\ ~runs[k].decoded =>
             (outputs[n].kind = "raw"
                /\ (SplitExtExt(outputs[n].src) # <<>> =>
                      outputs[n].path =
                        OutputPath(files[k].name, SplitExtExt(outputs[n].src)))
                /\ (SplitExtExt(outputs[n].src) = <<>> =>
                      \E e \in {sDotPng, sDotJpg, sDotImg} :
                        outputs[n].path = OutputPath(files[k].name, e)))

\* The reader yields nothing to write: it fails to open, lists no
\* image-typed item, or gives no bytes for the item it chose.
HlFallsThrough(f) ==
  \/ ~f.hl.opens
  \/ \A n \in 1..Len(f.hl.items) :
       ~StartsWith(f.hl.items[n].media_type, sImageSlash)
  \/ HlCoverItem(HlImageItems(f.hl)).content = "none"

\* C7: the zip/OPF path runs exactly when the reader path wrote nothing,
\* which is when the reader fails, lists no image item or gives no bytes; it
\* never runs after the reader path has written, and one EPUB yields at most
\* one written output.
C7_ManualIffNoHlOutput ==
  \A k \in 1..Len(runs) :
    runs[k].routine = "epub" =>
      /\ runs[k].manualRan => ~runs[k].hlWrote
      /\ (pc = "manual" /\ k = idx) =>
           (OutputsOf(k) = {} /\ HlFallsThrough(files[k]))
      /\ Finished(k) =>
           /\ runs[k].manualRan <=> HlFallsThrough(files[k])
           /\ runs[k].manualRan <=> ~runs[k].hlWrote
           /\ runs[k].hlWrote => Cardinality(OutputsOf(k)) = 1
      /\ Cardinality(OutputsOf(k)) <= 1

\* The reader could not open the file and the zip/OPF path wrote the cover.
C7_Witness ==
  /\ Len(runs) = 1 /\ Finished(1) /\ ~files[1].hl.opens
  /\ runs[1].manualRan /\ runs[1].decoded
  /\ \E n \in OutputsOf(1) : outputs[n].kind = "png"

(************************ claims about the loop ****************************)

\* The PDF at position k cannot be read or rendered.
PdfFails(k) ==
  /\ StrLower(SplitExtExt(files[k].name)) = sDotPdf
  /\ files[k].pdf # "ok"

\* The interpreter has left the loop.
Halted == crashed \/ (pc = "loop" /\ idx > Len(files))

\* C8: files are handled one after another in list order, and the file at
\* position k is handled if and only if no PDF before it failed: a failing
\* EPUB or TXT file or an unsupported extension never stops the loop, a
\* failing PDF always does.
C8_SequentialUntilPdfFailure ==
  /\ Len(runs) <= Len(files)
  /\ \A k \in 1..Len(runs) :
       /\ runs[k].file = k
       /\ \A j \in 1..(k - 1) : ~PdfFails(j)
  /\ \A m, n \in 1..Len(stdout) : m < n => stdout[m].file <= stdout[n].file
  /\ \A n \in 1..Len(outputs) : outputs[n].file <= Len(runs)
  /\ crashed <=> \E k \in 1..Len(runs) : PdfFails(k)
  /\ Halted =>
       \A k \in 1..Len(files) :
         (\A j \in 1..(k - 1) : ~PdfFails(j)) => k <= Len(runs)

\* An EPUB without container.xml failed and the next file was handled; in
\* another position a PDF failed and the file after it was not.
C8_Witness ==
  /\ Halted /\ Len(files) = 2 /\ Len(runs) = 2
  /\ runs[1].routine = "epub" /\ runs[1].failed
  /\ runs[2].routine = "pdf" /\ runs[2].failed /\ crashed

\* The branch the extension of a file name selects.
RoutineByExtension(name) ==
  LET ext == StrLower(SplitExtExt(name))
  IN IF ext = sDotPdf THEN "pdf"
     ELSE IF ext = sDotEpub THEN "epub"
     ELSE IF ext = sDotTxt THEN "txt"
     ELSE "unsupported"

\* C10: the routine that handles a file is the one its lower-cased
\* extension selects, whatever the --type hint; a file with another
\* extension gets a message and no output, and the loop goes on.
C10_DispatchByExtensionOnly ==
  /\ \A k \in 1..Len(runs) :
       /\ runs[k].routine = RoutineByExtension(files[k].name)
       /\ runs[k].routine = "unsupported" =>
            /\ OutputsOf(k) = {}
            /\ \E n \in 1..Len(stdout) : stdout[n] = Msg(k, "unsupported")
            /\ k < idx
  /\ (Halted /\ ~crashed) => Len(runs) = Len(files)

\* With --type epub, a name without a known extension was reported as
\* unsupported and the text file after it went to the text routine.
C10_Witness ==
  /\ typeHint = "epub" /\ Len(runs) = 2
  /\ runs[1].routine = "unsupported" /\ runs[2].routine = "txt"
  /\ OutputsOf(2) # {}

(********************* claims about extract_txt_cover **********************)

\* The lines of the text file, without their newlines.
TxtFileLines ==
  LET parts == SplitOn(files[1].txt.data, "\n")
  IN IF parts[Len(parts)] = <<>> THEN SubSeq(parts, 1, Len(parts) - 1)
     ELSE parts

\* extract_txt_cover has returned for the only, readable, file.
TxtDone ==
  /\ idx = 2 /\ Len(runs) = 1 /\ runs[1].routine = "txt"
  /\ files[1].txt.readable

\* The lines read: at most max_lines, from the start of the file.
TxtReadPrefix ==
  /\ runs[1].nread <= runs[1].max_lines
  /\ runs[1].nread > 0 =>
       SplitOn(runs[1].joined, "\n") = SubSeq(TxtFileLines, 1, runs[1].nread)

\* The text handed to the wrap holds every line of the file.
TxtAllLines == SplitOn(runs[1].text, "\n") = TxtFileLines

\* The text is cut at or before the cap and ends with the ellipsis, and so
\* does what is drawn.
TxtCut ==
  /\ EndsWith(runs[1].text, sEllipsis)
  /\ Len(runs[1].text) - 3 <= runs[1].max_chars
  /\ StartsWith(runs[1].joined, SubSeq(runs[1].text, 1, Len(runs[1].text) - 3))
  /\ Len(outputs) = 1
  /\ Len(outputs[1].drawn) = 1
  /\ EndsWith(outputs[1].drawn[1], sEllipsis)

\* Nothing was read: a notice, no output, no failure.
TxtEmptyNotice ==
  /\ outputs = <<>>
  /\ stdout = <<Msg(1, "txt_start"), Msg(1, "txt_empty")>>
  /\ ~crashed /\ ~runs[1].failed

TxtNothingRead == TxtFileLines = <<>> \/ runs[1].max_lines = 0

\* C9 as stated: a file with fewer lines than the cap has all its lines in
\* the rendered text (and the rest of the claim).
C9_Original ==
  TxtDone =>
    /\ TxtReadPrefix
    /\ (~TxtNothingRead /\ Len(TxtFileLines) < runs[1].max_lines) => TxtAllLines
    /\ (~TxtNothingRead /\ Len(runs[1].joined) > runs[1].max_chars) => TxtCut
    /\ TxtNothingRead => TxtEmptyNotice

\* C9: at most max_lines lines are read from the start of the file; a file
\* with fewer lines than the cap whose newline-joined text is no longer
\* than max_chars has all its lines in the rendered text; a joined text
\* longer than max_chars is cut at or before the cap and ends with "...";
\* and when no line is read there is a notice and no output file.
C9_LinesCapAndEllipsis ==
  TxtDone =>
    /\ TxtReadPrefix
    /\ (~TxtNothingRead /\ Len(TxtFileLines) < runs[1].max_lines
          /\ Len(runs[1].joined) <= runs[1].max_chars) => TxtAllLines
    /\ (~TxtNothingRead /\ Len(runs[1].joined) > runs[1].max_chars) => TxtCut
    /\ TxtNothingRead => TxtEmptyNotice

\* More lines in the file than the cap, and the lines read were cut.
C9_Witness ==
  /\ TxtDone /\ ~TxtNothingRead
  /\ Len(TxtFileLines) > runs[1].max_lines
  /\ runs[1].nread = runs[1].max_lines
  /\ Len(runs[1].joined) > runs[1].max_chars
  /\ TxtCut

====
